---------------------------- MODULE Spec2Model ----------------------------
(***************************************************************************)
(* State-machine model of homework.py: the polling loop of main() and the  *)
(* functions it calls.  Python values are tagged records, an exception is   *)
(* a result record carrying the exception type and str(error).  Russian     *)
(* string literals of the source are transliterated to ASCII, one-to-one.   *)
(***************************************************************************)
EXTENDS Integers, Sequences, FiniteSets, TLC

VARIABLES
    PRACTICUM_TOKEN,   \* module global, line 15
    TELEGRAM_TOKEN,    \* module global, line 16
    TELEGRAM_CHAT_ID,  \* module global, line 17
    pc,                \* position of main(): "start", "loop", "try", "finally",
                       \* "exited", "crashed"
    timestamp,         \* local of main(), line 109
    last_sent_error,   \* local of main(), line 110
    net,               \* what the status API did in the current iteration
    outcome,           \* "none", "ok" or "failed": how the current try block ended
    error_msg,         \* msg built at line 130 in the current iteration, "" if none
    from_date,         \* params['from_date'] of the request of the current iteration
    sent,              \* bot.sendMessage calls of the current iteration
    logged,            \* logger calls of the current iteration
    slept,             \* time.sleep calls (their durations) of the current iteration
    prev_error,        \* error_msg of the iteration before the current one
    last_current_date, \* response.get('current_date') of the latest iteration that
                       \* completed without an exception, the start-up time if none
    calls,             \* the outside calls of the current iteration, in order
    pending,           \* TRUE while an exception propagates out of the try statement
    exit_code,         \* argument of exit(), 0 while running
    fn,                \* function under test in SpecFn, "main" in Spec
    arg,               \* its argument
    ret                \* its result

vars == <<PRACTICUM_TOKEN, TELEGRAM_TOKEN, TELEGRAM_CHAT_ID, pc, timestamp,
          last_sent_error, net, outcome, error_msg, from_date, sent, logged,
          slept, prev_error, last_current_date, calls, pending, exit_code,
          fn, arg, ret>>

---------------------------------------------------------------------------
\* Bounds of the model.

\* number of distinct current_date values the server may report
MaxDate == 2
\* longest homeworks list the server may report
MaxHomeworks == 2

---------------------------------------------------------------------------
\* Python values.

None == [t |-> "NoneType"]
StrV(s) == [t |-> "str", s |-> s]
IntV(n) == [t |-> "int", n |-> n]
BoolV(b) == [t |-> "bool", b |-> b]
ListV(q) == [t |-> "list", items |-> q]
DictV(f) == [t |-> "dict", map |-> f]

\* Variant: the exact type is compared, subclasses are not accepted.
isinstance_exact(v, cls) == v.t = cls

\* isinstance(v, cls); bool is a subclass of int in Python
isinstance(v, cls) ==
    \/ v.t = cls
    \/ cls = "int" /\ v.t = "bool"

\* dict.get(key): the value, or None when the key is absent
Get(d, key) == IF key \in DOMAIN d.map THEN d.map[key] ELSE None

Digit(d) ==
    CASE d = 0 -> "0" [] d = 1 -> "1" [] d = 2 -> "2" [] d = 3 -> "3"
      [] d = 4 -> "4" [] d = 5 -> "5" [] d = 6 -> "6" [] d = 7 -> "7"
      [] d = 8 -> "8" [] d = 9 -> "9"

RECURSIVE NatStr(_)
NatStr(n) == IF n < 10 THEN Digit(n) ELSE NatStr(n \div 10) \o Digit(n % 10)

\* str(v), as an f-string formats a value
PyStr(v) ==
    CASE v.t = "str" -> v.s
      [] v.t = "int" -> IF v.n < 0 THEN "-" \o NatStr(-v.n) ELSE NatStr(v.n)
      [] v.t = "bool" -> IF v.b THEN "True" ELSE "False"
      [] v.t = "NoneType" -> "None"
      [] OTHER -> "<" \o v.t \o ">"

\* The outcome of a call: a returned value or a raised exception.
Return(v) == [ok |-> TRUE, exc |-> "", text |-> "", val |-> v]
Raise(exc, text) == [ok |-> FALSE, exc |-> exc, text |-> text, val |-> None]

\* exceptions.ResponseError: an Exception subclass, str(error) is its message
ResponseError(text) == Raise("ResponseError", text)

---------------------------------------------------------------------------
\* Module constants.

RETRY_TIME == 600

ENDPOINT == "https://practicum.yandex.ru/api/user_api/homework_statuses/"

\* int(time.time()) at start-up
StartTime == 1700000000

\* Variant: the verdicts of approved and rejected are exchanged.
HOMEWORK_VERDICTS_swapped ==
    [approved |-> "Rabota proverena: u revyuera est zamechaniya.",
     reviewing |-> "Rabota vzyata na proverku revyuerom.",
     rejected |-> "Rabota proverena: revyueru vsyo ponravilos. Ura!"]

HOMEWORK_VERDICTS ==
    [approved |-> "Rabota proverena: revyueru vsyo ponravilos. Ura!",
     reviewing |-> "Rabota vzyata na proverku revyuerom.",
     rejected |-> "Rabota proverena: u revyuera est zamechaniya."]

---------------------------------------------------------------------------
\* Variant: the exception of the bot call is not caught.
send_message_raises(message, delivered) ==
    IF delivered
    THEN [raised |-> FALSE, success |-> TRUE, error |-> None]
    ELSE [raised |-> TRUE, success |-> FALSE,
          error |-> StrV("telegram.error.NetworkError")]

\* send_message: the bot call either goes through (delivered) or raises; the
\* exception is caught and returned, so the call itself never raises.
send_message(message, delivered) ==
    IF delivered
    THEN [raised |-> FALSE, success |-> TRUE, error |-> None]
    ELSE [raised |-> FALSE, success |-> FALSE,
          error |-> StrV("telegram.error.NetworkError")]

\* The record main() leaves of one bot.sendMessage call.
SendEvent(message, delivered) ==
    [chat |-> TELEGRAM_CHAT_ID, message |-> message, success |-> delivered]

\* Variant: the request asks from the start-up clock reading, not the cursor.
from_date_param_clock(ts) == IntV(StartTime)

\* params = {'from_date': timestamp}
from_date_param(ts) == ts

\* The URL requests builds: a from_date of None is dropped from the query.
RequestUrl(ts) ==
    IF from_date_param(ts).t = "NoneType" THEN ENDPOINT
    ELSE ENDPOINT \o "?from_date=" \o PyStr(from_date_param(ts))

\* requests.models.Response.raise_for_status
raise_for_status(status, reason, url) ==
    IF 400 <= status /\ status < 500
    THEN Raise("HTTPError", NatStr(status) \o " Client Error: " \o reason
                            \o " for url: " \o url)
    ELSE IF 500 <= status /\ status < 600
    THEN Raise("HTTPError", NatStr(status) \o " Server Error: " \o reason
                            \o " for url: " \o url)
    ELSE Return(None)

\* get_api_answer(timestamp) against a server behaviour n:
\*   n.connected  FALSE when requests.get itself raises
\*   n.status, n.reason  the HTTP status line
\*   n.json       FALSE when the body is not JSON, n.body the parsed body
get_api_answer(ts, n) ==
    IF ~n.connected
    THEN Raise("ConnectionError", "connection failed")
    ELSE LET checked == raise_for_status(n.status, n.reason, RequestUrl(ts))
         IN  IF ~checked.ok THEN checked
             ELSE IF ~n.json
             THEN Raise("JSONDecodeError",
                        "Expecting value: line 1 column 1 (char 0)")
             ELSE Return(n.body)

\* Variant: `if not homeworks` in place of `if homeworks is None`.
check_response_falsy(response) ==
    IF ~isinstance(response, "dict")
    THEN Raise("TypeError", "Otvet API ne yavlyaetsya slovaryom")
    ELSE LET homeworks == Get(response, "homeworks")
         IN  IF homeworks.t = "NoneType"
                \/ (homeworks.t = "list" /\ Len(homeworks.items) = 0)
                \/ (homeworks.t = "str" /\ homeworks.s = "")
             THEN ResponseError("Oshibochnyi otvet API. Otsutstvuet spisok rabot")
             ELSE IF ~isinstance(homeworks, "list")
             THEN Raise("TypeError",
                        "Oshibochnyi otvet API. Nekorrektnyi format spiska rabot")
             ELSE Return(homeworks)

check_response(response) ==
    IF ~isinstance(response, "dict")
    THEN Raise("TypeError", "Otvet API ne yavlyaetsya slovaryom")
    ELSE LET homeworks == Get(response, "homeworks")
         IN  IF homeworks.t = "NoneType"
             THEN ResponseError("Oshibochnyi otvet API. Otsutstvuet spisok rabot")
             ELSE IF ~isinstance(homeworks, "list")
             THEN Raise("TypeError",
                        "Oshibochnyi otvet API. Nekorrektnyi format spiska rabot")
             ELSE Return(homeworks)

\* Variant: an undocumented status is reported as it is, without a verdict.
parse_status_lenient(homework) ==
    IF "homework_name" \notin DOMAIN homework.map
    THEN Raise("KeyError", "'homework_name'")
    ELSE IF "status" \notin DOMAIN homework.map
    THEN Raise("KeyError", "'status'")
    ELSE LET homework_name == homework.map["homework_name"]
             homework_status == homework.map["status"]
             verdict == IF /\ homework_status.t = "str"
                           /\ homework_status.s \in DOMAIN HOMEWORK_VERDICTS
                        THEN StrV(HOMEWORK_VERDICTS[homework_status.s])
                        ELSE StrV(PyStr(homework_status))
         IN  Return(StrV("Izmenilsya status proverki raboty \""
                         \o PyStr(homework_name) \o "\". " \o verdict.s))

parse_status(homework) ==
    IF "homework_name" \notin DOMAIN homework.map
    THEN Raise("KeyError", "'homework_name'")
    ELSE IF "status" \notin DOMAIN homework.map
    THEN Raise("KeyError", "'status'")
    ELSE LET homework_name == homework.map["homework_name"]
             homework_status == homework.map["status"]
             verdict == IF /\ homework_status.t = "str"
                           /\ homework_status.s \in DOMAIN HOMEWORK_VERDICTS
                        THEN StrV(HOMEWORK_VERDICTS[homework_status.s])
                        ELSE None
         IN  IF verdict.t = "NoneType"
             THEN ResponseError("Nedokumentirovannyi status domashnei raboty")
             ELSE Return(StrV("Izmenilsya status proverki raboty \""
                             \o PyStr(homework_name) \o "\". " \o verdict.s))

\* Variant: the chat identifier is not looked at.
check_tokens_lax ==
    /\ isinstance(PRACTICUM_TOKEN, "str")
    /\ isinstance(TELEGRAM_TOKEN, "str")

check_tokens ==
    /\ isinstance(PRACTICUM_TOKEN, "str")
    /\ isinstance(TELEGRAM_TOKEN, "str")
    /\ \/ isinstance(TELEGRAM_CHAT_ID, "str")
       \/ isinstance(TELEGRAM_CHAT_ID, "int")


---------------------------------------------------------------------------
\* main(): the try statement of the loop.

\* Variant: the list is taken to be non-empty whatever it holds.
TruthyAlways(homeworks) == TRUE

\* `if homeworks:` on a list
Truthy(homeworks) == Len(homeworks.items) > 0

\* Variant: the last record of the list is taken, not the first.
Index0Last(homeworks) ==
    IF Len(homeworks.items) = 0
    THEN Raise("IndexError", "list index out of range")
    ELSE Return(homeworks.items[Len(homeworks.items)])

\* homeworks[0]
Index0(homeworks) ==
    IF Len(homeworks.items) = 0
    THEN Raise("IndexError", "list index out of range")
    ELSE Return(homeworks.items[1])

\* Variant: the cursor is taken from the start-up clock reading.
NextTimestampClock(response) == IntV(StartTime)

\* timestamp = response.get('current_date')
NextTimestamp(response) == Get(response, "current_date")

\* Variant: the error message is sent whether or not it was sent before.
ShouldNotifyAlways(msg, last) == TRUE

\* Variant: the try statement is not inside a loop.
AfterFinallyOnce(propagating) == IF propagating THEN "crashed" ELSE "exited"

\* Where control goes after the finally clause: out of main() with a
\* propagating exception, else back to `while True`.
AfterFinally(propagating) == IF propagating THEN "crashed" ELSE "loop"

\* `if msg != last_sent_error:`
ShouldNotify(msg, last) == msg # last

LogEntry(level, msg) == [level |-> level, msg |-> msg]

TryFailed(text, events) ==
    [raised |-> TRUE, text |-> text, timestamp |-> None,
     sent |-> events, logged |-> <<>>]

TryDone(ts, events, logs) ==
    [raised |-> FALSE, text |-> "", timestamp |-> ts,
     sent |-> events, logged |-> logs]

\* Lines 113-128: the body of try, run with cursor ts against server
\* behaviour n; delivered says whether the bot call goes through.
TryBlock(ts, n, delivered) ==
    LET fetched == get_api_answer(ts, n)
    IN  IF ~fetched.ok THEN TryFailed(fetched.text, <<>>)
        ELSE
        LET response == fetched.val
            checked == check_response(response)
        IN  IF ~checked.ok THEN TryFailed(checked.text, <<>>)
            ELSE
            LET homeworks == Get(response, "homeworks")
            IN  IF ~Truthy(homeworks)
                THEN TryDone(NextTimestamp(response), <<>>, <<>>)
                ELSE
                LET first == Index0(homeworks)
                IN  IF ~first.ok THEN TryFailed(first.text, <<>>)
                    ELSE
                    LET parsed == parse_status(first.val)
                    IN  IF ~parsed.ok THEN TryFailed(parsed.text, <<>>)
                        ELSE
                        LET msg == parsed.val.s
                            sent_msg_result == send_message(msg, delivered)
                            event == SendEvent(msg, delivered)
                        IN  IF sent_msg_result.raised
                            THEN TryFailed(PyStr(sent_msg_result.error), <<event>>)
                            ELSE IF sent_msg_result.success
                            THEN TryDone(NextTimestamp(response), <<event>>,
                                   <<LogEntry("INFO",
                                       "Otpravleno soobschenie dlya id "
                                       \o PyStr(TELEGRAM_CHAT_ID))>>)
                            ELSE TryDone(NextTimestamp(response), <<event>>,
                                   <<LogEntry("ERROR",
                                       "Oshibka pri otpravke soobscheniya dlya id "
                                       \o PyStr(TELEGRAM_CHAT_ID) \o " ("
                                       \o PyStr(sent_msg_result.error) \o ")")>>)

\* Variant: logger.error(msg) sits inside the `if`, with the notification.
ExceptBlockLogIfSent(text, last, delivered) ==
    LET msg == "Sboi v rabote programmy: " \o text
    IN  IF ShouldNotify(msg, last)
        THEN [msg |-> msg, last |-> msg, propagates |-> FALSE,
              sent |-> <<SendEvent(msg, delivered)>>,
              logged |-> <<LogEntry("ERROR", msg)>>]
        ELSE [msg |-> msg, last |-> last, propagates |-> FALSE,
              sent |-> <<>>, logged |-> <<>>]

\* Variant: last_sent_error is updated only when the message went through.
ExceptBlockRecordIfSent(text, last, delivered) ==
    LET msg == "Sboi v rabote programmy: " \o text
    IN  IF ShouldNotify(msg, last)
        THEN [msg |-> msg,
              last |-> IF send_message(msg, delivered).success THEN msg ELSE last,
              propagates |-> FALSE,
              sent |-> <<SendEvent(msg, delivered)>>,
              logged |-> <<LogEntry("ERROR", msg)>>]
        ELSE [msg |-> msg, last |-> last, propagates |-> FALSE,
              sent |-> <<>>, logged |-> <<LogEntry("ERROR", msg)>>]

\* Variant: an error message that failed to send is sent a second time.
ExceptBlockRetry(text, last, delivered) ==
    LET msg == "Sboi v rabote programmy: " \o text
    IN  IF ShouldNotify(msg, last)
        THEN [msg |-> msg, last |-> msg, propagates |-> FALSE,
              sent |-> IF send_message(msg, delivered).success
                       THEN <<SendEvent(msg, delivered)>>
                       ELSE <<SendEvent(msg, delivered), SendEvent(msg, delivered)>>,
              logged |-> <<LogEntry("ERROR", msg)>>]
        ELSE [msg |-> msg, last |-> last, propagates |-> FALSE,
              sent |-> <<>>, logged |-> <<LogEntry("ERROR", msg)>>]

\* Lines 129-134: the except clause, entered with str(error) = text.
ExceptBlock(text, last, delivered) ==
    LET msg == "Sboi v rabote programmy: " \o text
    IN  IF ShouldNotify(msg, last)
        THEN IF send_message(msg, delivered).raised
             THEN [msg |-> msg, last |-> last, propagates |-> TRUE,
                   sent |-> <<SendEvent(msg, delivered)>>, logged |-> <<>>]
             ELSE [msg |-> msg, last |-> msg, propagates |-> FALSE,
                   sent |-> <<SendEvent(msg, delivered)>>,
                   logged |-> <<LogEntry("ERROR", msg)>>]
        ELSE [msg |-> msg, last |-> last, propagates |-> FALSE,
              sent |-> <<>>, logged |-> <<LogEntry("ERROR", msg)>>]

---------------------------------------------------------------------------
\* What the environment can supply.

\* os.getenv: None when the variable is unset, else its string
EnvValues == {None, StrV(""), StrV("1234:token")}

\* telegram.Bot(token=...) raises InvalidToken on an empty token
BotAccepts(token) == token.t = "str" /\ token.s # ""

Dates == {IntV(StartTime + 600 * i) : i \in 1..MaxDate}

Homework(name, status) ==
    DictV([homework_name |-> StrV(name), status |-> StrV(status)])

\* Records the server may put in the list, well formed or not.
Records ==
    {Homework("hw1", "approved"), Homework("hw2", "rejected"),
     Homework("hw2", "pending"), DictV([status |-> StrV("approved")])}

HomeworkLists == UNION {[1..n -> Records] : n \in 0..MaxHomeworks}

\* A key that the body does not have.
Absent == [t |-> "absent"]

Field(key, v) == IF v = Absent THEN <<>> ELSE (key :> v)

Body(homeworks, current_date) ==
    DictV(Field("homeworks", homeworks) @@ Field("current_date", current_date))

\* Parsed JSON bodies: every homeworks value (absent, null, not a list, a
\* list) with every current_date (absent or an integer), and a JSON array.
Bodies ==
    {Body(h, d) : h \in {Absent, None, StrV("oops")}
                       \cup {ListV(q) : q \in HomeworkLists},
                  d \in {Absent} \cup Dates}
    \cup {ListV(<<>>)}

NoRequest ==
    [connected |-> FALSE, status |-> 0, reason |-> "", json |-> FALSE,
     body |-> None]

Http(status, reason, json, body) ==
    [connected |-> TRUE, status |-> status, reason |-> reason, json |-> json,
     body |-> body]

\* Server behaviours: no connection, an error status, a 200 with or without
\* a JSON body, and statuses outside 2xx that raise_for_status lets through.
NetBehaviours ==
    {NoRequest}
    \cup {Http(404, "Not Found", FALSE, None),
          Http(500, "Internal Server Error", FALSE, None),
          Http(200, "OK", FALSE, None),
          Http(204, "No Content", FALSE, None),
          Http(300, "Multiple Choices", FALSE, None)}
    \cup {Http(200, "OK", TRUE, b) : b \in Bodies}
    \cup {Http(300, "Multiple Choices", TRUE, Body(ListV(<<>>), d)) : d \in Dates}

---------------------------------------------------------------------------
\* main()

Init ==
    /\ PRACTICUM_TOKEN \in EnvValues \ {StrV("")}
    /\ TELEGRAM_TOKEN \in EnvValues
    /\ TELEGRAM_CHAT_ID \in EnvValues \ {StrV("")}
    /\ pc = "start"
    /\ timestamp = None
    /\ last_sent_error = ""
    /\ net = NoRequest
    /\ outcome = "none"
    /\ error_msg = ""
    /\ from_date = None
    /\ sent = <<>>
    /\ logged = <<>>
    /\ slept = <<>>
    /\ prev_error = ""
    /\ last_current_date = None
    /\ calls = <<>>
    /\ pending = FALSE
    /\ exit_code = 0
    /\ fn = "main"
    /\ arg = None
    /\ ret = Return(None)

\* Lines 103-110.
Startup ==
    /\ pc = "start"
    /\ fn = "main"
    /\ IF ~check_tokens
       THEN /\ logged' = <<LogEntry("CRITICAL",
                    "Oshibka pri zagruzke peremennyh okruzheniya. "
                    \o "Programma prinuditelno ostanovlena")>>
            /\ exit_code' = -1
            /\ pc' = "exited"
            /\ UNCHANGED <<timestamp, last_sent_error, last_current_date>>
       ELSE IF ~BotAccepts(TELEGRAM_TOKEN)
       THEN /\ pc' = "crashed"
            /\ exit_code' = 1
            /\ UNCHANGED <<logged, timestamp, last_sent_error,
                           last_current_date>>
       ELSE /\ pc' = "loop"
            /\ timestamp' = IntV(StartTime)
            /\ last_sent_error' = ""
            /\ last_current_date' = IntV(StartTime)
            /\ UNCHANGED <<logged, exit_code>>
    /\ UNCHANGED <<PRACTICUM_TOKEN, TELEGRAM_TOKEN, TELEGRAM_CHAT_ID, net,
                   outcome, error_msg, from_date, sent, slept, prev_error,
                   calls, pending, fn, arg, ret>>

\* Line 111: the head of `while True`, where an iteration begins.
WhileTrue ==
    /\ pc = "loop"
    /\ pc' = "try"
    /\ prev_error' = error_msg
    /\ net' = NoRequest
    /\ outcome' = "none"
    /\ error_msg' = ""
    /\ from_date' = None
    /\ sent' = <<>>
    /\ logged' = <<>>
    /\ slept' = <<>>
    /\ calls' = <<>>
    /\ UNCHANGED <<PRACTICUM_TOKEN, TELEGRAM_TOKEN, TELEGRAM_CHAT_ID,
                   timestamp, last_sent_error, last_current_date, pending,
                   exit_code, fn, arg, ret>>

\* Variant: an iteration that completes without an exception clears
\* last_sent_error.
TryExceptResets ==
    /\ pc = "try"
    /\ \E n \in NetBehaviours, delivered \in BOOLEAN :
       /\ net' = n
       /\ from_date' = from_date_param(timestamp)
       /\ \E t \in {TryBlock(timestamp, n, delivered)} :
            IF t.raised
            THEN \E e \in {ExceptBlock(t.text, last_sent_error, delivered)} :
                     /\ outcome' = "failed"
                     /\ error_msg' = e.msg
                     /\ last_sent_error' = e.last
                     /\ sent' = t.sent \o e.sent
                     /\ logged' = t.logged \o e.logged
                     /\ pending' = e.propagates
                     /\ UNCHANGED <<timestamp, last_current_date>>
            ELSE /\ outcome' = "ok"
                 /\ error_msg' = ""
                 /\ timestamp' = t.timestamp
                 /\ sent' = t.sent
                 /\ logged' = t.logged
                 /\ pending' = FALSE
                 /\ last_current_date' = Get(n.body, "current_date")
                 /\ last_sent_error' = ""
    /\ calls' = <<"get_api_answer">> \o [i \in 1..Len(sent') |-> "send_message"]
    /\ pc' = "finally"
    /\ UNCHANGED <<PRACTICUM_TOKEN, TELEGRAM_TOKEN, TELEGRAM_CHAT_ID, slept,
                   prev_error, exit_code, fn, arg, ret>>

\* Lines 112-134: one pass through try and, on an exception, except.
TryExcept ==
    /\ pc = "try"
    /\ \E n \in NetBehaviours, delivered \in BOOLEAN :
       /\ net' = n
       /\ from_date' = from_date_param(timestamp)
       /\ \E t \in {TryBlock(timestamp, n, delivered)} :
            IF t.raised
            THEN \E e \in {ExceptBlock(t.text, last_sent_error, delivered)} :
                     /\ outcome' = "failed"
                     /\ error_msg' = e.msg
                     /\ last_sent_error' = e.last
                     /\ sent' = t.sent \o e.sent
                     /\ logged' = t.logged \o e.logged
                     /\ pending' = e.propagates
                     /\ UNCHANGED <<timestamp, last_current_date>>
            ELSE /\ outcome' = "ok"
                 /\ error_msg' = ""
                 /\ timestamp' = t.timestamp
                 /\ sent' = t.sent
                 /\ logged' = t.logged
                 /\ pending' = FALSE
                 /\ last_current_date' = Get(n.body, "current_date")
                 /\ UNCHANGED last_sent_error
    /\ calls' = <<"get_api_answer">> \o [i \in 1..Len(sent') |-> "send_message"]
    /\ pc' = "finally"
    /\ UNCHANGED <<PRACTICUM_TOKEN, TELEGRAM_TOKEN, TELEGRAM_CHAT_ID, slept,
                   prev_error, exit_code, fn, arg, ret>>

\* Lines 135-136, then back to `while True` unless an exception is leaving
\* the try statement.
Finally ==
    /\ pc = "finally"
    /\ slept' = Append(slept, RETRY_TIME)
    /\ calls' = Append(calls, "sleep")
    /\ pc' = AfterFinally(pending)
    /\ exit_code' = IF pending THEN 1 ELSE exit_code
    /\ UNCHANGED <<PRACTICUM_TOKEN, TELEGRAM_TOKEN, TELEGRAM_CHAT_ID,
                   timestamp, last_sent_error, net, outcome, error_msg,
                   from_date, sent, logged, prev_error, last_current_date,
                   pending, fn, arg, ret>>

Next == Startup \/ WhileTrue \/ TryExcept \/ Finally

Spec == Init /\ [][Next]_vars

\* The program is sequential and never waits for anything but its own calls.
FairSpec == Spec /\ WF_vars(Next)

---------------------------------------------------------------------------
\* The functions on their own: each is called once on an input drawn from a
\* bounded set, with the module globals as the input of check_tokens.

\* Values a module global can be given (by the environment or by a test).
TokenValues == EnvValues \cup {IntV(12345), BoolV(TRUE)}

\* Arguments for check_response: every body, and values that are no dict.
ResponseValues == Bodies \cup {None, StrV("homeworks"), ListV(<<>>)}

\* Arguments for parse_status.
RecordValues ==
    {Homework(name, status) :
        name \in {"hw1", "hw2"},
        status \in {"approved", "reviewing", "rejected", "pending", ""}}
    \cup Records
    \cup {DictV([homework_name |-> StrV("hw1")])}

InitFn ==
    /\ fn \in {"check_tokens", "check_response", "parse_status"}
    /\ IF fn = "check_tokens"
       THEN /\ PRACTICUM_TOKEN \in TokenValues
            /\ TELEGRAM_TOKEN \in TokenValues
            /\ TELEGRAM_CHAT_ID \in TokenValues
       ELSE /\ PRACTICUM_TOKEN = None
            /\ TELEGRAM_TOKEN = None
            /\ TELEGRAM_CHAT_ID = None
    /\ arg \in CASE fn = "check_tokens" -> {None}
                 [] fn = "check_response" -> ResponseValues
                 [] fn = "parse_status" -> RecordValues
    /\ ret = Return(None)
    /\ pc = "call"
    /\ timestamp = None
    /\ last_sent_error = ""
    /\ net = NoRequest
    /\ outcome = "none"
    /\ error_msg = ""
    /\ from_date = None
    /\ sent = <<>>
    /\ logged = <<>>
    /\ slept = <<>>
    /\ prev_error = ""
    /\ last_current_date = None
    /\ calls = <<>>
    /\ pending = FALSE
    /\ exit_code = 0

Returned(result) ==
    /\ pc = "call"
    /\ pc' = "return"
    /\ ret' = result
    /\ UNCHANGED <<PRACTICUM_TOKEN, TELEGRAM_TOKEN, TELEGRAM_CHAT_ID,
                   timestamp, last_sent_error, net, outcome, error_msg,
                   from_date, sent, logged, slept, prev_error,
                   last_current_date, calls, pending, exit_code, fn, arg>>

CallCheckTokens == fn = "check_tokens" /\ Returned(Return(BoolV(check_tokens)))

CallCheckResponse == fn = "check_response" /\ Returned(check_response(arg))

CallParseStatus == fn = "parse_status" /\ Returned(parse_status(arg))

NextFn == CallCheckTokens \/ CallCheckResponse \/ CallParseStatus

SpecFn == InitFn /\ [][NextFn]_vars

---------------------------------------------------------------------------
\* Properties of the loop (checked under Spec).

\* The try statement of the current iteration has run.
IterDone == pc \in {"finally", "loop"} /\ outcome # "none"

\* What get_api_answer gave in the current iteration.
Fetched == get_api_answer(from_date, net)

\* The fetch returned a dict.
FetchedDict == Fetched.ok /\ isinstance(net.body, "dict")

\* The fetch returned a body that check_response accepts.
FetchedValid == Fetched.ok /\ check_response(net.body).ok

FetchedList == Get(net.body, "homeworks").items

IsErrorMessage(e) == e.message = error_msg

\* C1: when two consecutive iterations fail with the same message text, the
\* later one does not call the bot with that message; an error notification
\* is issued again only after a failure with a different text.
C1_DedupConsecutive ==
    (IterDone /\ outcome = "failed" /\ prev_error = error_msg)
        => \A i \in 1..Len(sent) : ~IsErrorMessage(sent[i])

C1_Witness ==
    /\ pc = "loop"
    /\ outcome = "failed"
    /\ prev_error = error_msg
    /\ last_sent_error = error_msg

\* C2 as stated: whenever get_api_answer returns a (dict) body, timestamp is
\* that body's current_date at the end of the iteration, also when
\* check_response or parse_status fails afterwards.
C2_Original ==
    (IterDone /\ FetchedDict) => timestamp = Get(net.body, "current_date")

\* C2 amended: after a fetch that returned a body, timestamp is the body's
\* current_date when the iteration completed without an exception, and is
\* unchanged when check_response or parse_status raised.
C2_AdvanceOnSuccess ==
    (IterDone /\ Fetched.ok) =>
        /\ outcome = "ok" => timestamp = Get(net.body, "current_date")
        /\ outcome = "failed" => timestamp = from_date

C2_Witness ==
    /\ IterDone
    /\ FetchedDict
    /\ outcome = "failed"
    /\ Get(net.body, "current_date") \in Dates
    /\ timestamp # Get(net.body, "current_date")

\* C3 as stated: after a valid fetch with a non-empty list the bot was
\* called exactly once, with the parse_status message of the first record,
\* and timestamp is the response's current_date.
C3_Original ==
    (IterDone /\ FetchedValid /\ Len(FetchedList) > 0) =>
        /\ parse_status(FetchedList[1]).ok
        /\ Len(sent) = 1
        /\ sent[1].message = parse_status(FetchedList[1]).val.s
        /\ timestamp = Get(net.body, "current_date")

\* C3 amended: the same, for the iterations in which parse_status succeeds
\* on the first record.
C3_FirstRecordOnly ==
    (/\ IterDone
     /\ FetchedValid
     /\ Len(FetchedList) > 0
     /\ parse_status(FetchedList[1]).ok) =>
        /\ Len(sent) = 1
        /\ sent[1].message = parse_status(FetchedList[1]).val.s
        /\ timestamp = Get(net.body, "current_date")

C3_Witness ==
    /\ IterDone
    /\ FetchedValid
    /\ Len(FetchedList) = 2
    /\ parse_status(FetchedList[1]).ok
    /\ parse_status(FetchedList[2]).ok
    /\ parse_status(FetchedList[1]) # parse_status(FetchedList[2])
    /\ Len(sent) = 1
    /\ timestamp \in Dates

\* The fetch returned a well-formed body with an empty homeworks list.
FetchedEmptyList == FetchedValid /\ Len(FetchedList) = 0

\* C4: an iteration that fetches a well-formed response with an empty list
\* calls the bot not at all, leaves last_sent_error as it was and sets
\* timestamp to the response's current_date.
C4_EmptyList ==
    [][(pc = "try" /\ pc' = "finally" /\ FetchedEmptyList') =>
          /\ sent' = <<>>
          /\ last_sent_error' = last_sent_error
          /\ timestamp' = Get(net'.body, "current_date")]_vars

C4_Witness ==
    /\ IterDone
    /\ FetchedEmptyList
    /\ sent = <<>>
    /\ last_sent_error # ""
    /\ timestamp \in Dates
    /\ timestamp # from_date

InLoop == pc \in {"loop", "try", "finally"}

\* C5: once the loop is entered the program stays in it whatever fails; it
\* fetches again and again, and each iteration ends with the sleep of
\* RETRY_TIME seconds.
C5_LoopNeverEnds ==
    /\ [][InLoop => InLoop']_vars
    /\ InLoop ~> (pc = "finally" /\ outcome # "none")
    /\ InLoop ~> (pc = "loop" /\ slept = <<RETRY_TIME>>)

C5_Witness ==
    /\ pc = "loop"
    /\ outcome = "failed"
    /\ \E i \in 1..Len(sent) : ~sent[i].success
    /\ slept = <<RETRY_TIME>>

\* The status notification of the current iteration failed to send.
StatusSendFailed ==
    /\ FetchedValid
    /\ Len(FetchedList) > 0
    /\ parse_status(FetchedList[1]).ok
    /\ sent # <<>>
    /\ sent[1].message = parse_status(FetchedList[1]).val.s
    /\ ~sent[1].success

\* C6: a failed bot call never leaves send_message as an exception; when the
\* status notification fails to send, the iteration still completes as a
\* success: no error message is built or sent, last_sent_error is unchanged
\* and timestamp becomes the response's current_date.
C6_NotifyFailureIsData ==
    [][(pc = "try" /\ pc' = "finally") =>
          /\ pending' = FALSE
          /\ StatusSendFailed' =>
                /\ outcome' = "ok"
                /\ error_msg' = ""
                /\ Len(sent') = 1
                /\ last_sent_error' = last_sent_error
                /\ timestamp' = Get(net'.body, "current_date")]_vars

C6_Witness ==
    /\ IterDone
    /\ StatusSendFailed
    /\ outcome = "ok"
    /\ last_sent_error # ""
    /\ timestamp \in Dates
    /\ timestamp # from_date

\* C7: with any of the three credentials absent the program never enters the
\* loop (no request, no bot call, no sleep), and when it has stopped it has
\* logged a critical message and exited with a non-zero code.
C7_MissingCredentialExits ==
    (None \in {PRACTICUM_TOKEN, TELEGRAM_TOKEN, TELEGRAM_CHAT_ID}) =>
        /\ pc \in {"start", "exited"}
        /\ outcome = "none"
        /\ from_date = None
        /\ sent = <<>>
        /\ slept = <<>>
        /\ pc = "exited" =>
              /\ exit_code # 0
              /\ Len(logged) = 1
              /\ logged[1].level = "CRITICAL"

C7_Witness ==
    /\ pc = "exited"
    /\ PRACTICUM_TOKEN # None
    /\ TELEGRAM_TOKEN # None
    /\ TELEGRAM_CHAT_ID = None
    /\ exit_code = -1

---------------------------------------------------------------------------
\* Properties of the functions (checked under SpecFn).

NonEmptyStr(v) == v.t = "str" /\ v.s # ""

CheckTokensReturned == fn = "check_tokens" /\ pc = "return"

\* C8 as stated: check_tokens is true exactly when both tokens are non-empty
\* strings and the chat identifier is a non-empty string or an integer.
C8_Original ==
    CheckTokensReturned =>
        ret.val.b = (/\ NonEmptyStr(PRACTICUM_TOKEN)
                     /\ NonEmptyStr(TELEGRAM_TOKEN)
                     /\ \/ NonEmptyStr(TELEGRAM_CHAT_ID)
                        \/ TELEGRAM_CHAT_ID.t = "int")

\* C8 amended: check_tokens is true exactly when both tokens are strings,
\* empty or not, and the chat identifier is a string, empty or not, or an
\* integer (a bool is an integer); it is false for every other combination.
C8_StringsOfAnyLength ==
    CheckTokensReturned =>
        ret.val.b = (/\ PRACTICUM_TOKEN.t = "str"
                     /\ TELEGRAM_TOKEN.t = "str"
                     /\ TELEGRAM_CHAT_ID.t \in {"str", "int", "bool"})

C8_Witness ==
    /\ CheckTokensReturned
    /\ PRACTICUM_TOKEN = StrV("")
    /\ TELEGRAM_TOKEN = StrV("")
    /\ TELEGRAM_CHAT_ID = BoolV(TRUE)
    /\ ret.val.b

\* C9: check_response raises for every argument that is no dict, for every
\* dict without a homeworks key and for every dict whose homeworks is no
\* list; for a dict whose homeworks is a list it returns that very list.
C9_CheckResponse ==
    (fn = "check_response" /\ pc = "return") =>
        IF arg.t # "dict" THEN ~ret.ok /\ ret.exc # ""
        ELSE IF "homeworks" \notin DOMAIN arg.map THEN ~ret.ok /\ ret.exc # ""
        ELSE IF arg.map["homeworks"].t # "list" THEN ~ret.ok /\ ret.exc # ""
        ELSE ret.ok /\ ret.val = arg.map["homeworks"]

C9_Witness ==
    /\ fn = "check_response"
    /\ pc = "return"
    /\ arg.t = "dict"
    /\ "homeworks" \in DOMAIN arg.map
    /\ ret.ok
    /\ ret.val = ListV(<<>>)

\* A record of the HomeworkRecord shape: both keys, both strings.
IsHomeworkRecord(v) ==
    /\ v.t = "dict"
    /\ {"homework_name", "status"} \subseteq DOMAIN v.map
    /\ v.map["homework_name"].t = "str"
    /\ v.map["status"].t = "str"

StatusMessage(name, verdict) ==
    StrV("Izmenilsya status proverki raboty \"" \o name \o "\". " \o verdict)

\* C10: for a record with status approved, reviewing or rejected
\* parse_status returns the template with the record's homework_name and the
\* verdict of that status; for a record with any other status it raises the
\* unknown-status error and returns nothing.
C10_ParseStatus ==
    (fn = "parse_status" /\ pc = "return" /\ IsHomeworkRecord(arg)) =>
        LET name == arg.map["homework_name"].s
            status == arg.map["status"].s
        IN  CASE status = "approved" ->
                   /\ ret.ok
                   /\ ret.val = StatusMessage(name,
                        "Rabota proverena: revyueru vsyo ponravilos. Ura!")
              [] status = "reviewing" ->
                   /\ ret.ok
                   /\ ret.val = StatusMessage(name,
                        "Rabota vzyata na proverku revyuerom.")
              [] status = "rejected" ->
                   /\ ret.ok
                   /\ ret.val = StatusMessage(name,
                        "Rabota proverena: u revyuera est zamechaniya.")
              [] OTHER ->
                   /\ ~ret.ok
                   /\ ret.exc = "ResponseError"
                   /\ ret.text = "Nedokumentirovannyi status domashnei raboty"
                   /\ ret.val = None

C10_Witness ==
    /\ fn = "parse_status"
    /\ pc = "return"
    /\ IsHomeworkRecord(arg)
    /\ arg.map["status"].s = "rejected"
    /\ arg.map["homework_name"].s = "hw2"
    /\ ret.ok

---------------------------------------------------------------------------
\* Further properties of the loop (checked under Spec).

\* C11 as stated: get_api_answer raises for every status outside 200..299
\* and returns the parsed body only for a status inside it.
C11_Original ==
    (IterDone /\ net.connected) =>
        /\ net.status \notin 200..299 => ~Fetched.ok
        /\ Fetched.ok => net.status \in 200..299

\* C12 as stated: inside the loop timestamp is always an integer.
C12_Original == InLoop => timestamp.t = "int"

\* C13: a failed iteration leaves exactly one log entry, of level ERROR,
\* carrying the message built from the error, whether the notification was
\* suppressed, sent or failed to send.
C13_FailureLoggedOnce ==
    (IterDone /\ outcome = "failed") =>
        /\ logged = <<LogEntry("ERROR", error_msg)>>
        /\ ~Fetched.ok =>
              error_msg = "Sboi v rabote programmy: " \o Fetched.text

C13_Witness ==
    /\ IterDone
    /\ outcome = "failed"
    /\ sent = <<>>
    /\ prev_error = error_msg
    /\ Len(logged) = 1

\* C14: the from_date of every request is the cursor: the start-up time
\* for the first request, afterwards response.get('current_date') of the
\* latest iteration that completed without an exception; iterations that
\* failed in between do not change it and the clock is not read again.
C14_FromDateIsCursor ==
    [][(pc = "try" /\ pc' = "finally") =>
          /\ from_date' = last_current_date
          /\ from_date' = timestamp]_vars

C14_Witness ==
    /\ IterDone
    /\ from_date \in Dates
    /\ outcome = "failed"
    /\ prev_error # ""
    /\ from_date = last_current_date

\* The try statement runs in this step.
TryStep == pc = "try" /\ pc' = "finally"

\* The fetch returned a valid body whose first record has both keys and a
\* status outside the verdict table.
UnknownStatusFirst ==
    /\ FetchedValid
    /\ Len(FetchedList) > 0
    /\ {"homework_name", "status"} \subseteq DOMAIN FetchedList[1].map
    /\ FetchedList[1].map["status"].s \notin {"approved", "reviewing", "rejected"}

\* C15: an iteration that takes the error path leaves timestamp as it was,
\* equal to the from_date it asked with, and nothing but the try statement
\* assigns timestamp, so the next request repeats that from_date; an unknown
\* status on the first record takes the error path, sends no status
\* notification and does not advance timestamp.
C15_ErrorKeepsCursor ==
    [][/\ (TryStep /\ outcome' = "failed") =>
             /\ timestamp' = timestamp
             /\ from_date' = timestamp'
       /\ (TryStep /\ UnknownStatusFirst') =>
             /\ outcome' = "failed"
             /\ timestamp' = timestamp
             /\ \A i \in 1..Len(sent') : sent'[i].message = error_msg'
       /\ (pc \in {"finally", "loop"}) => timestamp' = timestamp]_vars

C15_Witness ==
    /\ IterDone
    /\ UnknownStatusFirst
    /\ outcome = "failed"
    /\ timestamp = from_date
    /\ Get(net.body, "current_date") \in Dates
    /\ Get(net.body, "current_date") # timestamp
    /\ Len(sent) = 1

\* C16: after an iteration that took the error path last_sent_error is the
\* message of that iteration, whether its notification went through, failed
\* or was suppressed; a notification is attempted exactly when the message
\* differs from last_sent_error, so a message whose sending failed is not
\* sent again while the text stays the same; nothing else assigns
\* last_sent_error.
C16_LastSentErrorRecordsAttempt ==
    [][/\ (TryStep /\ outcome' = "failed") =>
             /\ last_sent_error' = error_msg'
             /\ (error_msg' = last_sent_error) <=> (sent' = <<>>)
             /\ \A i \in 1..Len(sent') : sent'[i].message = error_msg'
       /\ (InLoop /\ ~(TryStep /\ outcome' = "failed")) =>
             last_sent_error' = last_sent_error]_vars

C16_Witness ==
    /\ IterDone
    /\ outcome = "failed"
    /\ Len(sent) = 1
    /\ ~sent[1].success
    /\ sent[1].message = error_msg
    /\ last_sent_error = error_msg

\* C17: an iteration that completes without an exception leaves
\* last_sent_error as it was, and a failure whose message equals
\* last_sent_error sends nothing, also when successful iterations lie between
\* it and the failure that recorded the message; the same text is notified
\* again only after another text has replaced it in last_sent_error.
C17_SuccessKeepsLastSentError ==
    [][/\ (TryStep /\ outcome' = "ok") => last_sent_error' = last_sent_error
       /\ (TryStep /\ outcome' = "failed" /\ error_msg' = last_sent_error) =>
             sent' = <<>>
       /\ (pc = "loop" /\ outcome = "ok" /\ last_sent_error # "") =>
             last_sent_error' # ""]_vars

\* fail with E, succeed, fail with E again: nothing is sent the second time.
C17_Witness ==
    /\ IterDone
    /\ outcome = "failed"
    /\ prev_error = ""
    /\ error_msg = last_sent_error
    /\ sent = <<>>

\* C18: an iteration makes one get_api_answer call, then at most one
\* send_message call (a status message or an error message, not both), then
\* one sleep of RETRY_TIME seconds, which is its last call.
C18_CallsOfIteration ==
    /\ (pc = "finally") =>
          /\ calls \in {<<"get_api_answer">>, <<"get_api_answer", "send_message">>}
          /\ slept = <<>>
    /\ (pc = "loop" /\ outcome # "none") =>
          /\ calls \in {<<"get_api_answer", "sleep">>,
                        <<"get_api_answer", "send_message", "sleep">>}
          /\ slept = <<RETRY_TIME>>
    /\ Len(sent) <= 1
    /\ (sent # <<>> /\ outcome = "ok") => ~IsErrorMessage(sent[1])
    /\ (sent # <<>> /\ outcome = "failed") => IsErrorMessage(sent[1])

C18_Witness ==
    /\ pc = "loop"
    /\ outcome = "failed"
    /\ calls = <<"get_api_answer", "send_message", "sleep">>
    /\ ~sent[1].success

=============================================================================
